---- MODULE Spec2Model ----
(***************************************************************************)
(* Pick-request coordinator of ProductReversePickRequest: the request      *)
(* state machine (PickRequestService), the picker scanning session         *)
(* (PickerWebSocketHandler) and the reaper (CleanupService), with the      *)
(* request store modelled as the set of persisted rows.                    *)
(*                                                                         *)
(* Time is counted in quanta of MinutesPerTick minutes.  Principals are    *)
(* identified by their username (the UUID primary key is an injective      *)
(* renaming of it).  Item rows are identified by the creation ordinal of   *)
(* their request (gen) and their position in it: surrogate ids are fresh   *)
(* for every created request.                                              *)
(***************************************************************************)
EXTENDS Integers, Sequences, FiniteSets, TLC

\* ------------------------------------------------------------------ bounds
MaxTicks == 2
MaxGen == 1
MaxSessions == 1
MinutesPerTick == 30

\* ------------------------------------------------------- program constants
pick_timeout_minutes == 30
auto_cleanup_hours == 24
auto_mode_threshold == 10
None == -1

NULL == "null"
NoReq == [status |-> "absent"]

T_idle == pick_timeout_minutes \div MinutesPerTick
T_retain == (auto_cleanup_hours * 60) \div MinutesPerTick

\* --------------------------------------------------------------- principals
Users == {"admin", "alice", "bob", "carol"}

role(u) ==
    CASE u = "admin" -> "admin"
      [] u = "alice" -> "requester"
      [] OTHER -> "picker"

is_admin(u) == role(u) = "admin"

can_create_requests(u) == role(u) \in {"admin", "requester"}

can_pick(u) == role(u) \in {"admin", "picker"}

\* ----------------------------------------------------------------- requests
Names == {"r1"}

\* request names as clients send them; the name column can hold any of them
SentNames == {"r1", "R1"}

\* str.lower() on the names above
lower(name) == IF name = "R1" THEN "r1" ELSE name

RequestStatus ==
    {"pending", "in_progress", "paused", "partially_completed",
     "completed", "cancelled"}

ShortageReason == {"out_of_stock", "other"}

\* create payloads: the item lists (upc, quantity) a requester submits
Payloads ==
    { << [upc |-> "u1", quantity |-> 2], [upc |-> "u2", quantity |-> 1] >>,
      << [upc |-> "u1", quantity |-> 2] >> }

UPCs == {"u1", "u2"}

Quantities == 0..3

Increments == 1..2

ShortageUpdates ==
    { [shortage_reason |-> "out_of_stock", shortage_notes |-> NULL],
      [shortage_reason |-> "other", shortage_notes |-> "n"],
      [shortage_reason |-> "other", shortage_notes |-> NULL] }

PickRequestItem(p) ==
    [upc |-> p.upc, requested_qty |-> p.quantity, picked_qty |-> 0,
     shortage_reason |-> NULL, shortage_notes |-> NULL]

PickRequest(payload, u, g) ==
    [status |-> "pending", created_by |-> u, locked_by |-> NULL,
     started_at |-> None, completed_at |-> None,
     last_activity_at |-> None, gen |-> g, notes |-> <<>>,
     items |-> [i \in 1..Len(payload) |-> PickRequestItem(payload[i])]]

Exists(req) == req.status # "absent"

is_locked(req) == req.locked_by # NULL

is_locked_by(req, u) == req.locked_by = u

item_has_shortage(it) == it.picked_qty < it.requested_qty

has_shortages(req) ==
    \E i \in DOMAIN req.items : req.items[i].picked_qty < req.items[i].requested_qty

remaining(it) ==
    IF it.requested_qty - it.picked_qty > 0
    THEN it.requested_qty - it.picked_qty ELSE 0

\* index of the first item with this upc, 0 when there is none
find_item(req, upc) ==
    LET S == {i \in DOMAIN req.items : req.items[i].upc = upc}
    IN  IF S = {} THEN 0 ELSE CHOOSE i \in S : \A j \in S : i <= j

\* result of a coordinator call: error code (or OK) and the row it leaves
Res(code, req) == [code |-> code, req |-> req]

\* the errors of exceptions.validation_error and exceptions.item_not_found,
\* factories the service calls and app/core/exceptions.py does not define:
\* their codes are taken from the error taxonomy
validation_error == "VALIDATION_ERROR"

item_not_found == "ITEM_NOT_FOUND"


\* ------------------------------------------- PickRequestService (pure part)
_verify_lock(req, u) ==
    IF req.status # "in_progress" THEN "INVALID_STATUS"
    ELSE IF ~is_locked_by(req, u) /\ ~is_admin(u) THEN "REQUEST_LOCKED"
    ELSE "OK"

\* a start that claims the request without recording started_at
start_unstamped(req, u, t) ==
    IF ~Exists(req) THEN Res("REQUEST_NOT_FOUND", req)
    ELSE IF req.status # "pending" THEN Res("INVALID_STATUS", req)
    ELSE IF is_locked(req) THEN Res("REQUEST_LOCKED", req)
    ELSE Res("OK", [req EXCEPT !.status = "in_progress", !.locked_by = u,
                               !.last_activity_at = t])

start_picking(req, u, t) ==
    IF ~Exists(req) THEN Res("REQUEST_NOT_FOUND", req)
    ELSE IF req.status # "pending" THEN Res("INVALID_STATUS", req)
    ELSE IF is_locked(req) THEN Res("REQUEST_LOCKED", req)
    ELSE Res("OK", [req EXCEPT !.status = "in_progress", !.locked_by = u,
                               !.started_at = t, !.last_activity_at = t])

pause_picking(req, u, t) ==
    IF ~Exists(req) THEN Res("REQUEST_NOT_FOUND", req)
    ELSE IF _verify_lock(req, u) # "OK" THEN Res(_verify_lock(req, u), req)
    ELSE Res("OK", [req EXCEPT !.status = "paused", !.last_activity_at = t])

\* update = [picked_qty, increment], exactly one of them not None
new_quantity(it, update) ==
    IF update.picked_qty # None THEN update.picked_qty
    ELSE it.picked_qty + update.increment

\* an update that clamps a quantity above requested_qty instead of refusing it
update_item_clamped(req, upc, update, u, t) ==
    IF ~Exists(req) THEN Res("REQUEST_NOT_FOUND", req)
    ELSE IF _verify_lock(req, u) # "OK" THEN Res(_verify_lock(req, u), req)
    ELSE IF find_item(req, upc) = 0 THEN Res(item_not_found, req)
    ELSE LET i == find_item(req, upc)
             new_qty == new_quantity(req.items[i], update)
         IN  Res("OK", [req EXCEPT
                 !.items[i].picked_qty =
                     IF new_qty > req.items[i].requested_qty
                     THEN req.items[i].requested_qty ELSE new_qty,
                 !.last_activity_at = t])

\* an update that raises requested_qty to fit a quantity above it
update_item_raising(req, upc, update, u, t) ==
    IF ~Exists(req) THEN Res("REQUEST_NOT_FOUND", req)
    ELSE IF _verify_lock(req, u) # "OK" THEN Res(_verify_lock(req, u), req)
    ELSE IF find_item(req, upc) = 0 THEN Res(item_not_found, req)
    ELSE LET i == find_item(req, upc)
             new_qty == new_quantity(req.items[i], update)
         IN  Res("OK", [req EXCEPT
                 !.items[i].picked_qty = IF new_qty < 0 THEN 0 ELSE new_qty,
                 !.items[i].requested_qty =
                     IF new_qty > @ THEN new_qty ELSE @,
                 !.last_activity_at = t])

\* the "remaining" detail of the QUANTITY_EXCEEDED error
exceeded_remaining(req, upc) == remaining(req.items[find_item(req, upc)])

update_item_quantity(req, upc, update, u, t) ==
    IF ~Exists(req) THEN Res("REQUEST_NOT_FOUND", req)
    ELSE IF _verify_lock(req, u) # "OK" THEN Res(_verify_lock(req, u), req)
    ELSE IF find_item(req, upc) = 0 THEN Res(item_not_found, req)
    ELSE LET i == find_item(req, upc)
             new_qty == new_quantity(req.items[i], update)
         IN  IF new_qty > req.items[i].requested_qty
             THEN Res("QUANTITY_EXCEEDED", req)
             ELSE Res("OK", [req EXCEPT
                     !.items[i].picked_qty = IF new_qty < 0 THEN 0 ELSE new_qty,
                     !.last_activity_at = t])

\* a submit validation that finds every shortage item annotated
reason_never_missing(req) == FALSE

missing_reason(req) ==
    \E i \in DOMAIN req.items :
        item_has_shortage(req.items[i]) /\ req.items[i].shortage_reason = NULL

\* a validation loop that reports the last shortage item without a reason
last_missing_reason(req) ==
    LET S == {i \in DOMAIN req.items :
                 item_has_shortage(req.items[i])
                 /\ req.items[i].shortage_reason = NULL}
    IN  CHOOSE i \in S : \A j \in S : j <= i

\* the item the validation loop of submit stops at
first_missing_reason(req) ==
    LET S == {i \in DOMAIN req.items :
                 item_has_shortage(req.items[i])
                 /\ req.items[i].shortage_reason = NULL}
    IN  CHOOSE i \in S : \A j \in S : i <= j

\* the item named in the message of submit's VALIDATION_ERROR
validation_error_item(req) == req.items[first_missing_reason(req)].upc

\* a submit that completes whatever was picked
submit_always_completed(req, u, validate_shortages, t) ==
    IF ~Exists(req) THEN Res("REQUEST_NOT_FOUND", req)
    ELSE IF _verify_lock(req, u) # "OK" THEN Res(_verify_lock(req, u), req)
    ELSE Res("OK", [req EXCEPT !.status = "completed",
                               !.completed_at = t, !.last_activity_at = t])

submit_request(req, u, validate_shortages, t) ==
    IF ~Exists(req) THEN Res("REQUEST_NOT_FOUND", req)
    ELSE IF _verify_lock(req, u) # "OK" THEN Res(_verify_lock(req, u), req)
    ELSE IF has_shortages(req) /\ validate_shortages /\ missing_reason(req)
         THEN Res(validation_error, req)
    ELSE Res("OK", [req EXCEPT
            !.status = IF has_shortages(req) THEN "partially_completed"
                       ELSE "completed",
            !.completed_at = t, !.last_activity_at = t])

\* what the caller of submit gets: the log file is written after the commit,
\* and an exception of PickLogger.generate_log is not caught
submit_response(req, u, validate_shortages, t, log_written) ==
    LET r == submit_request(req, u, validate_shortages, t)
    IN  IF r.code = "OK" /\ ~log_written THEN "INTERNAL_ERROR" ELSE r.code

\* shortage_data of submit_with_shortages: dicts with upc, shortage_reason and
\* shortage_notes, the reason a string that may be absent or no ShortageReason
ShortageEntries ==
    { [upc |-> upc, shortage_reason |-> reason, shortage_notes |-> NULL] :
          upc \in UPCs, reason \in {"out_of_stock", "bogus", NULL} }

MaxShortageData == 2

ShortageData ==
    UNION { [1..k -> ShortageEntries] : k \in 0..MaxShortageData }

\* the items after the loop of submit_with_shortages: an entry with a reason
\* is applied to the item its upc maps to, a later entry over an earlier one
apply_shortages(req, shortage_data) ==
    [i \in DOMAIN req.items |->
        LET same == {j \in DOMAIN req.items : req.items[j].upc = req.items[i].upc}
            given == {k \in DOMAIN shortage_data :
                         /\ shortage_data[k].upc = req.items[i].upc
                         /\ shortage_data[k].shortage_reason # NULL}
        IN  IF given = {} \/ \E j \in same : j > i THEN req.items[i]
            ELSE LET k == CHOOSE x \in given : \A y \in given : y <= x
                 IN  [req.items[i] EXCEPT
                         !.shortage_reason = shortage_data[k].shortage_reason,
                         !.shortage_notes = shortage_data[k].shortage_notes]]

\* ShortageReason(reason) raises for a string that names no reason
invalid_reason(req, shortage_data) ==
    \E k \in DOMAIN shortage_data :
        /\ \E i \in DOMAIN req.items : req.items[i].upc = shortage_data[k].upc
        /\ shortage_data[k].shortage_reason \notin ShortageReason \cup {NULL}

\* the reasons are committed first, then submit_request runs on the committed
\* row; req of the result is the row the call leaves in the store
submit_with_shortages(req, u, shortage_data, t) ==
    IF ~Exists(req) THEN Res("REQUEST_NOT_FOUND", req)
    ELSE IF _verify_lock(req, u) # "OK" THEN Res(_verify_lock(req, u), req)
    ELSE IF invalid_reason(req, shortage_data) THEN Res("INTERNAL_ERROR", req)
    ELSE submit_request(
             [req EXCEPT !.items = apply_shortages(req, shortage_data),
                         !.last_activity_at = t],
             u, TRUE, t)

set_item_shortage(req, upc, update, u, t) ==
    IF ~Exists(req) THEN Res("REQUEST_NOT_FOUND", req)
    ELSE IF _verify_lock(req, u) # "OK" THEN Res(_verify_lock(req, u), req)
    ELSE IF find_item(req, upc) = 0 THEN Res(item_not_found, req)
    ELSE LET i == find_item(req, upc)
         IN  Res("OK", [req EXCEPT
                 !.items[i].shortage_reason = update.shortage_reason,
                 !.items[i].shortage_notes = update.shortage_notes,
                 !.last_activity_at = t])

\* a release that forgets the start, as the reaper's release does
release_clearing_start(req, u, t) ==
    IF ~Exists(req) THEN Res("REQUEST_NOT_FOUND", req)
    ELSE IF ~is_admin(u) /\ req.locked_by # u THEN Res("FORBIDDEN", req)
    ELSE IF req.status \notin {"in_progress", "paused", "partially_completed"}
         THEN Res("INVALID_STATUS", req)
    ELSE Res("OK", [req EXCEPT !.status = "pending", !.locked_by = NULL,
                               !.started_at = None, !.last_activity_at = t])

release_lock(req, u, t) ==
    IF ~Exists(req) THEN Res("REQUEST_NOT_FOUND", req)
    ELSE IF ~is_admin(u) /\ req.locked_by # u THEN Res("FORBIDDEN", req)
    ELSE IF req.status \notin {"in_progress", "paused", "partially_completed"}
         THEN Res("INVALID_STATUS", req)
    ELSE Res("OK", [req EXCEPT !.status = "pending", !.locked_by = NULL,
                               !.last_activity_at = t])

\* a resume that does not look at the claimant of a paused request
resume_unchecked(req, u, t) ==
    IF ~Exists(req) THEN Res("REQUEST_NOT_FOUND", req)
    ELSE IF req.status \notin {"paused", "partially_completed"}
         THEN Res("INVALID_STATUS", req)
    ELSE Res("OK", [req EXCEPT !.status = "in_progress", !.locked_by = u,
                               !.last_activity_at = t])

resume_picking(req, u, t) ==
    IF ~Exists(req) THEN Res("REQUEST_NOT_FOUND", req)
    ELSE IF req.status \notin {"paused", "partially_completed"}
         THEN Res("INVALID_STATUS", req)
    ELSE IF req.status = "paused" /\ is_locked(req) /\ req.locked_by # u
            /\ ~is_admin(u)
         THEN Res("REQUEST_LOCKED", req)
    ELSE Res("OK", [req EXCEPT !.status = "in_progress", !.locked_by = u,
                               !.last_activity_at = t])

\* a cancel without the check of the terminal statuses
cancel_any_status(req, u, t) ==
    IF ~Exists(req) THEN Res("REQUEST_NOT_FOUND", req)
    ELSE IF ~is_admin(u) /\ req.created_by # u THEN Res("FORBIDDEN", req)
    ELSE Res("OK", [req EXCEPT !.status = "cancelled", !.locked_by = NULL,
                               !.last_activity_at = t])

\* a cancel open to every principal
cancel_by_anyone(req, u, t) ==
    IF ~Exists(req) THEN Res("REQUEST_NOT_FOUND", req)
    ELSE IF req.status \in {"completed", "cancelled"}
         THEN Res("INVALID_STATUS", req)
    ELSE Res("OK", [req EXCEPT !.status = "cancelled", !.locked_by = NULL,
                               !.last_activity_at = t])

cancel_request(req, u, t) ==
    IF ~Exists(req) THEN Res("REQUEST_NOT_FOUND", req)
    ELSE IF ~is_admin(u) /\ req.created_by # u THEN Res("FORBIDDEN", req)
    ELSE IF req.status \in {"completed", "cancelled"}
         THEN Res("INVALID_STATUS", req)
    ELSE Res("OK", [req EXCEPT !.status = "cancelled", !.locked_by = NULL,
                               !.last_activity_at = t])

\* an approve without the check of the status
approve_any_status(req, u, notes, t) ==
    IF ~Exists(req) THEN Res("REQUEST_NOT_FOUND", req)
    ELSE IF ~is_admin(u) /\ req.created_by # u THEN Res("FORBIDDEN", req)
    ELSE Res("OK", [req EXCEPT
            !.status = "completed", !.completed_at = t, !.last_activity_at = t])

\* the audit note "[APPROVED by <username>]: <notes>"
approval_note(u, notes) == [approved_by |-> u, text |-> notes]

\* notes holds the audit notes appended to the requester's notes
approve_request(req, u, notes, t) ==
    IF ~Exists(req) THEN Res("REQUEST_NOT_FOUND", req)
    ELSE IF ~is_admin(u) /\ req.created_by # u THEN Res("FORBIDDEN", req)
    ELSE IF req.status # "partially_completed" THEN Res("INVALID_STATUS", req)
    ELSE Res("OK", [req EXCEPT
            !.status = "completed", !.completed_at = t, !.last_activity_at = t,
            !.notes = IF notes # NULL /\ notes # ""
                      THEN Append(@, approval_note(u, notes)) ELSE @])

\* a delete without the check of the status
delete_any_status(req, u) ==
    IF ~Exists(req) THEN Res("REQUEST_NOT_FOUND", req)
    ELSE IF ~is_admin(u) /\ req.created_by # u THEN Res("FORBIDDEN", req)
    ELSE Res("OK", NoReq)

delete_request(req, u) ==
    IF ~Exists(req) THEN Res("REQUEST_NOT_FOUND", req)
    ELSE IF ~is_admin(u) /\ req.created_by # u THEN Res("FORBIDDEN", req)
    ELSE IF req.status # "pending" THEN Res("INVALID_STATUS", req)
    ELSE Res("OK", NoReq)

\* a create that stores the name as it was sent
stored_as_sent(name) == name

\* the primary key create_request gives the new row: the normalized name
stored_name(name) == lower(name)

create_request(req, payload, u, g) ==
    IF Exists(req) THEN Res("REQUEST_NAME_EXISTS", req)
    ELSE Res("OK", PickRequest(payload, u, g))

\* ------------------------------------------------ REST endpoints (role gate)
\* a gate that lets every authenticated principal through
require_no_role(u, allowed_roles) == "OK"

\* the error is chosen by the first of admin, picker, requester that is among
\* the allowed roles
require_role(u, allowed_roles) ==
    IF role(u) \in allowed_roles THEN "OK"
    ELSE IF "admin" \in allowed_roles THEN "ADMIN_REQUIRED"
    ELSE IF "picker" \in allowed_roles THEN "PICKER_REQUIRED"
    ELSE IF "requester" \in allowed_roles THEN "REQUESTER_REQUIRED"
    ELSE "FORBIDDEN"

require_picker(u, req, r) ==
    IF require_role(u, {"picker", "admin"}) = "OK" THEN r
    ELSE Res(require_role(u, {"picker", "admin"}), req)

require_requester(u, req, r) ==
    IF require_role(u, {"requester", "admin"}) = "OK" THEN r
    ELSE Res(require_role(u, {"requester", "admin"}), req)

\* the HTTP status of an error code
status_code(code) ==
    CASE code = "OK" -> 200
      [] code \in {"FORBIDDEN", "ADMIN_REQUIRED", "PICKER_REQUIRED",
                   "REQUESTER_REQUIRED", "ACCOUNT_DISABLED"} -> 403
      [] code = "REQUEST_NOT_FOUND" -> 404
      [] code = "REQUEST_NAME_EXISTS" -> 409
      [] code = "REQUEST_LOCKED" -> 423
      [] code = "VALIDATION_ERROR" -> 422
      [] code = "INTERNAL_ERROR" -> 500
      [] OTHER -> 400

\* ItemShortageUpdate.validate_notes_for_other
validate_notes_for_other(update) ==
    ~(update.shortage_reason = "other" /\ update.shortage_notes = NULL)

api_create(req, payload, u, g) ==
    require_requester(u, req, create_request(req, payload, u, g))

api_start(req, u, t) == require_picker(u, req, start_picking(req, u, t))

api_pause(req, u, t) == require_picker(u, req, pause_picking(req, u, t))

api_update_item(req, upc, update, u, t) ==
    require_picker(u, req, update_item_quantity(req, upc, update, u, t))

api_set_shortage(req, upc, update, u, t) ==
    IF ~validate_notes_for_other(update) THEN Res("VALIDATION_ERROR", req)
    ELSE require_picker(u, req, set_item_shortage(req, upc, update, u, t))

api_submit(req, u, skip_shortage_validation, t) ==
    require_picker(u, req, submit_request(req, u, ~skip_shortage_validation, t))

api_resume(req, u, t) == require_picker(u, req, resume_picking(req, u, t))


\* the notes query parameter of approve
ApprovalNotes == {NULL, "", "ok"}

ItemQuantityUpdates ==
    { [picked_qty |-> q, increment |-> None] : q \in Quantities } \cup
    { [picked_qty |-> None, increment |-> k] : k \in Increments }

\* ----------------------------------------------------------- CleanupService
\* a staleness test that includes the cutoff itself
is_stale_at_cutoff(req, timeout, t) ==
    /\ Exists(req)
    /\ req.status = "in_progress"
    /\ req.last_activity_at # None
    /\ req.last_activity_at <= t - timeout

is_stale(req, timeout, t) ==
    /\ Exists(req)
    /\ req.status = "in_progress"
    /\ req.last_activity_at # None
    /\ req.last_activity_at < t - timeout

release_stale_locks(rows, timeout, t) ==
    [n \in DOMAIN rows |->
        IF is_stale(rows[n], timeout, t)
        THEN [rows[n] EXCEPT !.status = "pending", !.locked_by = NULL,
                             !.started_at = None, !.last_activity_at = None]
        ELSE rows[n]]

\* an age test that ignores the status
is_old_any_status(req, retain, t) ==
    /\ Exists(req)
    /\ req.completed_at # None
    /\ req.completed_at < t - retain

is_old(req, retain, t) ==
    /\ Exists(req)
    /\ req.status = "completed"
    /\ req.completed_at # None
    /\ req.completed_at < t - retain

cleanup_older_than(rows, retain, t) ==
    [n \in DOMAIN rows |-> IF is_old(rows[n], retain, t) THEN NoReq ELSE rows[n]]

cleanup_completed(rows) ==
    [n \in DOMAIN rows |->
        IF Exists(rows[n]) /\ rows[n].status = "completed" THEN NoReq
        ELSE rows[n]]

\* --------------------------------------------------- PickerWebSocketHandler
ClosedSession == [open |-> FALSE]

\* the ORM objects a session keeps from run(): the items as loaded then
SessionItem(it) ==
    [upc |-> it.upc, requested_qty |-> it.requested_qty,
     picked_qty |-> it.picked_qty]

OpenSession(n, req) ==
    [open |-> TRUE, name |-> n, gen |-> req.gen,
     items |-> [i \in DOMAIN req.items |-> SessionItem(req.items[i])],
     last_scan_upc |-> NULL, cooling |-> FALSE]

validate_request(req, u) ==
    IF ~Exists(req) THEN "NOT_FOUND"
    ELSE IF req.status # "in_progress" THEN "INVALID_STATUS"
    ELSE IF ~is_locked_by(req, u) /\ ~is_admin(u) THEN "LOCKED"
    ELSE "OK"

upc_to_item(s, upc) ==
    LET S == {i \in DOMAIN s.items : s.items[i].upc = upc}
    IN  IF S = {} THEN 0 ELSE CHOOSE i \in S : TRUE

\* the rows the session's objects map to are still there
RowsPresent(s, req) == Exists(req) /\ req.gen = s.gen

scan_mode(it) ==
    IF it.requested_qty > auto_mode_threshold THEN "bulk" ELSE "scan-to-count"

auto_increments(it) ==
    scan_mode(it) = "scan-to-count" /\ it.picked_qty < it.requested_qty

in_cooldown(s, upc) == s.last_scan_upc = upc /\ s.cooling

\* a manual update without the upper bound
manual_quantity_unbounded(it, quantity) ==
    quantity # None /\ quantity >= 0

valid_manual_quantity(it, quantity) ==
    quantity # None /\ quantity >= 0 /\ quantity <= it.requested_qty


\* ==================================================================== state
VARIABLES
    db,      \* persisted rows: request name -> request (with its items)
    ngen,    \* number of requests ever created under a name
    now,     \* wall clock, in quanta
    sess,    \* picker scanning sessions, by principal
    txn,     \* operations in flight in concurrent workers (SpecRace)
    task,    \* the background cleanup task (CleanupTaskManager)
    is_active,   \* users.is_active, by principal
    name_check,  \* a validate_name request: the raw name and the reply
    seen         \* by principal, the session's observations of the last second

vars ==
    <<db, ngen, now, sess, txn, task, is_active, name_check, seen>>

Workers == {"w1", "w2"}

Idle == [pc |-> "idle"]

\* CleanupTaskManager.__init__: no task, not running
NoTask == [running |-> FALSE, due |-> None, errors |-> 0]

\* no name has been sent for validation
NoReply == [ok |-> FALSE, normalized |-> <<>>, error |-> NULL]

NoCheck == [pc |-> "idle", raw |-> <<>>, reply |-> NoReply]

Init ==
    /\ db = [n \in SentNames |-> NoReq]
    /\ ngen = [n \in SentNames |-> 0]
    /\ now = 0
    /\ sess = [u \in Users |-> ClosedSession]
    /\ txn = [w \in Workers |-> Idle]
    /\ task = NoTask
    /\ is_active = [u \in Users |-> TRUE]
    /\ name_check = NoCheck
    /\ seen = [u \in Users |-> <<>>]

\* authenticate_from_token: the user row is loaded at every REST call
get_current_user(u) == IF ~is_active[u] THEN "ACCOUNT_DISABLED" ELSE "OK"

\* a REST call of u on request n runs to its commit in one step; a call that
\* returns an error has written nothing
Call(n, u, r) ==
    /\ get_current_user(u) = "OK"
    /\ r.code = "OK"
    /\ db' = [db EXCEPT ![n] = r.req]
    /\ UNCHANGED <<now, sess, txn, task, is_active, name_check, seen>>

Create(n, u, payload) ==
    /\ ngen[n] < MaxGen
    /\ Call(n, u, api_create(db[n], payload, u, ngen[n] + 1))
    /\ ngen' = [ngen EXCEPT ![n] = @ + 1]

Delete(n, u) ==
    /\ Call(n, u, delete_request(db[n], u))
    /\ UNCHANGED ngen

Start(n, u) ==
    /\ Call(n, u, api_start(db[n], u, now))
    /\ UNCHANGED ngen

Pause(n, u) ==
    /\ Call(n, u, api_pause(db[n], u, now))
    /\ UNCHANGED ngen

UpdateItem(n, u, upc, update) ==
    /\ Call(n, u, api_update_item(db[n], upc, update, u, now))
    /\ UNCHANGED ngen

SetShortage(n, u, upc, update) ==
    /\ Call(n, u, api_set_shortage(db[n], upc, update, u, now))
    /\ UNCHANGED ngen

Submit(n, u, skip_shortage_validation) ==
    /\ Call(n, u, api_submit(db[n], u, skip_shortage_validation, now))
    /\ UNCHANGED ngen

Release(n, u) ==
    /\ Call(n, u, release_lock(db[n], u, now))
    /\ UNCHANGED ngen

Resume(n, u) ==
    /\ Call(n, u, api_resume(db[n], u, now))
    /\ UNCHANGED ngen

Cancel(n, u) ==
    /\ Call(n, u, cancel_request(db[n], u, now))
    /\ UNCHANGED ngen

Approve(n, u, notes) ==
    /\ Call(n, u, approve_request(db[n], u, notes, now))
    /\ UNCHANGED ngen

\* one pass of CleanupTaskManager._cleanup_loop
ReaperPass ==
    /\ db' = cleanup_older_than(release_stale_locks(db, T_idle, now), T_retain, now)
    /\ UNCHANGED <<ngen, now, sess, txn, task, is_active, name_check, seen>>

\* POST /cleanup/release-stale?timeout_minutes=...
AdminReleaseStale(u, timeout) ==
    /\ get_current_user(u) = "OK"
    /\ is_admin(u)
    /\ db' = release_stale_locks(db, timeout, now)
    /\ UNCHANGED <<ngen, now, sess, txn, task, is_active, name_check, seen>>

\* DELETE /cleanup/completed
AdminCleanupCompleted(u) ==
    /\ get_current_user(u) = "OK"
    /\ is_admin(u)
    /\ db' = cleanup_completed(db)
    /\ UNCHANGED <<ngen, now, sess, txn, task, is_active, name_check, seen>>


\* ------------------------------------------------- picker session (actions)
OpenCount == Cardinality({u \in Users : sess[u].open})

\* run(): authenticate, validate_request, build the UPC mapping
Connect(u, n) ==
    /\ ~sess[u].open
    /\ OpenCount < MaxSessions
    /\ LET code == IF ~(is_active[u] /\ can_pick(u)) THEN "AUTH_REQUIRED"
                   ELSE validate_request(db[n], u)
       IN  /\ code = "OK"
           /\ sess' = [sess EXCEPT ![u] = OpenSession(n, db[n])]
    /\ UNCHANGED <<db, ngen, now, txn, task, is_active, name_check, seen>>

\* commit of the session's pending change to item i, then refresh(item)
SessionWrite(ss, u, i, qty) ==
    LET s == ss[u]
        n == s.name
        written == [db EXCEPT
            ![n].items[i].picked_qty =
                IF qty # s.items[i].picked_qty THEN qty ELSE @,
            ![n].last_activity_at = now]
    IN  /\ db' = written
        /\ sess' = [ss EXCEPT
               ![u].items[i].picked_qty = written[n].items[i].picked_qty]

\* handle_manual_scan, or one detection of handle_frame, past the cooldown
\* check
ProcessScan(u, upc) ==
    /\ sess[u].open
    /\ ~in_cooldown(sess[u], upc)
    /\ LET s == sess[u]
           i == upc_to_item(s, upc)
           marked == [sess EXCEPT ![u].last_scan_upc = upc, ![u].cooling = TRUE]
       IN  IF i = 0 \/ ~auto_increments(s.items[IF i = 0 THEN 1 ELSE i])
           THEN /\ sess' = marked
                /\ UNCHANGED db
           ELSE IF ~RowsPresent(s, db[s.name])
           THEN /\ sess' = [sess EXCEPT ![u] = ClosedSession]
                /\ UNCHANGED db
           ELSE /\ SessionWrite(marked, u, i, s.items[i].picked_qty + 1)

\* an observation in cooldown is dropped: it is no step
Scan(u, upc) ==
    /\ ProcessScan(u, upc)
    /\ UNCHANGED <<ngen, now, txn, task, is_active, name_check, seen>>

\* handle_manual_update; a message with an unknown UPC or a quantity out of
\* range is answered with an error
ManualUpdate(u, upc, quantity) ==
    /\ sess[u].open
    /\ upc_to_item(sess[u], upc) # 0
    /\ LET s == sess[u]
           i == upc_to_item(s, upc)
       IN  /\ valid_manual_quantity(s.items[i], quantity)
           /\ IF ~RowsPresent(s, db[s.name])
              THEN /\ sess' = [sess EXCEPT ![u] = ClosedSession]
                   /\ UNCHANGED db
              ELSE /\ SessionWrite(sess, u, i, quantity)
    /\ UNCHANGED <<ngen, now, txn, task, is_active, name_check, seen>>

\* handle_get_status: refresh(self._request)
GetStatus(u) ==
    /\ sess[u].open
    /\ ~Exists(db[sess[u].name])
    /\ sess' = [sess EXCEPT ![u] = ClosedSession]
    /\ UNCHANGED <<db, ngen, now, txn, task, is_active, name_check, seen>>

\* "stop" message or WebSocketDisconnect
Disconnect(u) ==
    /\ sess[u].open
    /\ sess' = [sess EXCEPT ![u] = ClosedSession]
    /\ UNCHANGED <<db, ngen, now, txn, task, is_active, name_check, seen>>

\* _scan_cooldown (1 second) has passed since the session's last observation
CooldownExpires(u) ==
    /\ sess[u].open
    /\ sess[u].cooling
    /\ sess' = [sess EXCEPT ![u].cooling = FALSE]
    /\ UNCHANGED <<db, ngen, now, txn, task, is_active, name_check, seen>>

\* number of clock steps taken to reach time t
Ticks(t) == (t \div T_retain) + (t % T_retain)

\* the clock advances, by one quantum or by the retention period (either is
\* longer than any scan cooldown)
Tick(d) ==
    /\ Ticks(now) < MaxTicks
    /\ now' = now + d
    /\ sess' = [u \in Users |->
                 IF sess[u].open THEN [sess[u] EXCEPT !.cooling = FALSE]
                 ELSE sess[u]]
    /\ UNCHANGED <<db, ngen, txn, task, is_active, name_check, seen>>

\* the REST operations of the coordinator
Coordinator ==
    \/ \E n \in Names, u \in Users, payload \in Payloads : Create(n, u, payload)
    \/ \E n \in Names, u \in Users : Delete(n, u)
    \/ \E n \in Names, u \in Users : Start(n, u)
    \/ \E n \in Names, u \in Users : Pause(n, u)
    \/ \E n \in Names, u \in Users, upc \in UPCs, update \in ItemQuantityUpdates :
          UpdateItem(n, u, upc, update)
    \/ \E n \in Names, u \in Users, upc \in UPCs, update \in ShortageUpdates :
          SetShortage(n, u, upc, update)
    \/ \E n \in Names, u \in Users, skip \in BOOLEAN : Submit(n, u, skip)
    \/ \E n \in Names, u \in Users : Release(n, u)
    \/ \E n \in Names, u \in Users : Resume(n, u)
    \/ \E n \in Names, u \in Users : Cancel(n, u)
    \/ \E n \in Names, u \in Users, notes \in ApprovalNotes : Approve(n, u, notes)

\* the reaper and the admin cleanup endpoints
Cleanup ==
    \/ ReaperPass
    \/ \E u \in Users, timeout \in {0, T_idle} : AdminReleaseStale(u, timeout)
    \/ \E u \in Users : AdminCleanupCompleted(u)

\* the picker scanning sessions
Sessions ==
    \/ \E u \in Users, n \in Names : Connect(u, n)
    \/ \E u \in Users, upc \in UPCs : Scan(u, upc)
    \/ \E u \in Users, upc \in UPCs, q \in Quantities \cup {None} :
          ManualUpdate(u, upc, q)
    \/ \E u \in Users : GetStatus(u)
    \/ \E u \in Users : Disconnect(u)
    \/ \E u \in Users : CooldownExpires(u)

\* coordinator and reaper, with the clock
Next == Coordinator \/ Cleanup \/ \E d \in {1, T_retain} : Tick(d)

Spec == Init /\ [][Next]_vars

\* coordinator and scanning sessions, within one quantum of the clock
NextSession == Coordinator \/ Sessions

SpecSession == Init /\ [][NextSession]_vars


\* ============================================== concurrent workers (SpecRace)
\* Two server workers share the store.  A call loads the request (the read),
\* decides on what it loaded, and its commit flushes an UPDATE of the columns
\* it changed, keyed by the primary key alone.

RacePayload == << [upc |-> "u1", quantity |-> 2] >>

RaceCalls ==
    { [op |-> "create", user |-> "alice"],
      [op |-> "start", user |-> "bob"],
      [op |-> "start", user |-> "carol"],
      [op |-> "update_item", user |-> "bob"],
      [op |-> "set_item_shortage", user |-> "bob"],
      [op |-> "pause", user |-> "bob"],
      [op |-> "resume", user |-> "bob"],
      [op |-> "resume", user |-> "carol"],
      [op |-> "release", user |-> "bob"],
      [op |-> "submit", user |-> "bob"],
      [op |-> "approve", user |-> "alice"],
      [op |-> "cancel", user |-> "alice"] }

\* what call c decides and writes on the request it loaded
Exec(c, req, t) ==
    CASE c.op = "create" -> api_create(req, RacePayload, c.user, 1)
      [] c.op = "start" -> api_start(req, c.user, t)
      [] c.op = "update_item" ->
            api_update_item(req, "u1", [picked_qty |-> None, increment |-> 1],
                            c.user, t)
      [] c.op = "set_item_shortage" ->
            api_set_shortage(req, "u1",
                [shortage_reason |-> "out_of_stock", shortage_notes |-> NULL],
                c.user, t)
      [] c.op = "pause" -> api_pause(req, c.user, t)
      [] c.op = "resume" -> api_resume(req, c.user, t)
      [] c.op = "release" -> release_lock(req, c.user, t)
      [] c.op = "submit" -> api_submit(req, c.user, FALSE, t)
      [] c.op = "approve" -> approve_request(req, c.user, NULL, t)
      [] OTHER -> cancel_request(req, c.user, t)

RequestColumns ==
    {"status", "created_by", "locked_by", "started_at", "completed_at",
     "last_activity_at", "gen", "notes"}

ItemColumns ==
    {"upc", "requested_qty", "picked_qty", "shortage_reason", "shortage_notes"}

\* the row after the flush of a unit of work that loaded snap and holds new:
\* only the columns whose value changed are written over the current row
Flush(cur, snap, new) ==
    [f \in RequestColumns |-> IF new[f] # snap[f] THEN new[f] ELSE cur[f]]
    @@ [items |->
          [i \in DOMAIN cur.items |->
              [f \in ItemColumns |->
                  IF new.items[i][f] # snap.items[i][f]
                  THEN new.items[i][f] ELSE cur.items[i][f]]]]

\* a worker takes a call on the name sent and loads the request of that name
\* in lower case
Begin(w, sent, c) ==
    /\ txn[w].pc = "idle"
    /\ get_current_user(c.user) = "OK"
    /\ txn' = [txn EXCEPT ![w] = [pc |-> "read", name |-> lower(sent),
                                  sent |-> sent, call |-> c,
                                  snap |-> db[lower(sent)]]]
    /\ UNCHANGED <<db, ngen, now, sess, task, is_active, name_check, seen>>

Done(t, code) == [pc |-> "done", name |-> t.name, sent |-> t.sent,
                  call |-> t.call, snap |-> t.snap, code |-> code]

\* the worker finishes the call: an error response, or the commit
Commit(w) ==
    /\ txn[w].pc = "read"
    /\ LET t == txn[w]
           n == t.name
           r == Exec(t.call, t.snap, now)
       IN  IF r.code # "OK"
           THEN /\ txn' = [txn EXCEPT ![w] = Done(t, r.code)]
                /\ UNCHANGED <<db, ngen>>
           ELSE IF t.call.op = "create"
           THEN IF Exists(db[stored_name(t.sent)])
                THEN /\ txn' = [txn EXCEPT ![w] = Done(t, "REQUEST_NAME_EXISTS")]
                     /\ UNCHANGED <<db, ngen>>
                ELSE /\ txn' = [txn EXCEPT ![w] = Done(t, "OK")]
                     /\ db' = [db EXCEPT ![stored_name(t.sent)] = r.req]
                     /\ ngen' = [ngen EXCEPT ![stored_name(t.sent)] = @ + 1]
           ELSE /\ txn' = [txn EXCEPT ![w] = Done(t, "OK")]
                /\ db' = [db EXCEPT ![n] = Flush(db[n], t.snap, r.req)]
                /\ UNCHANGED ngen
    /\ UNCHANGED <<now, sess, task, is_active, name_check, seen>>

\* the responses of the finished calls are delivered
Ack ==
    /\ \A w \in Workers : txn[w].pc # "read"
    /\ \E w \in Workers : txn[w].pc = "done"
    /\ txn' = [w \in Workers |-> Idle]
    /\ UNCHANGED <<db, ngen, now, sess, task, is_active, name_check, seen>>

NextRace ==
    \/ \E w \in Workers, sent \in SentNames, c \in RaceCalls : Begin(w, sent, c)
    \/ \E w \in Workers : Commit(w)
    \/ Ack

SpecRace == Init /\ [][NextRace]_vars


\* ==================================================================== claims

Active == {"in_progress", "paused", "partially_completed"}
Terminal == {"completed", "cancelled"}

\* both workers have finished a call, and both had loaded the same row
Overlapped ==
    /\ \A w \in Workers : txn[w].pc = "done"
    /\ txn["w1"].name = txn["w2"].name
    /\ txn["w1"].snap = txn["w2"].snap

\* C1: when two start calls on the same pending request interleave, exactly
\* one of them succeeds and becomes the claimant, and the other one fails
\* with REQUEST_LOCKED.
C1_OneStartWins ==
    (/\ Overlapped
     /\ \A w \in Workers : txn[w].call.op = "start"
     /\ txn["w1"].snap.status = "pending")
    => \E w \in Workers :
          LET o == CHOOSE x \in Workers : x # w
          IN  /\ txn[w].code = "OK"
              /\ txn[o].code = "REQUEST_LOCKED"
              /\ db[txn[w].name].locked_by = txn[w].call.user

\* the results and the final row of running call a and then call b on base
Sequential(base, a, b) ==
    LET ra == Exec(a, base, now)
        rb == Exec(b, ra.req, now)
    IN  [req |-> rb.req, first |-> ra.code, second |-> rb.code]

\* C7: two calls of two workers on the same request end in a row, and return
\* results, that one of the two sequential orders of the calls also produces.
C7_Linearizable ==
    (\A w \in Workers : txn[w].pc = "done" /\ txn[w].name = txn["w1"].name)
    => LET a == txn["w1"]
           b == txn["w2"]
           ab == Sequential(a.snap, a.call, b.call)
           ba == Sequential(b.snap, b.call, a.call)
       IN  \/ /\ db[a.name] = ab.req
              /\ a.code = ab.first
              /\ b.code = ab.second
           \/ /\ db[a.name] = ba.req
              /\ b.code = ba.first
              /\ a.code = ba.second


\* C2: in every state reached by coordinator and reaper operations, a request
\* has a claimant (locked_by) exactly when its status is in_progress, paused
\* or partially_completed.
C2_ClaimantIffActive ==
    \A n \in Names :
        Exists(db[n]) => (is_locked(db[n]) <=> db[n].status \in Active)

\* C3: every item of every request keeps 0 <= picked_qty <= requested_qty,
\* whatever REST updates, increments, session scans and session manual updates
\* produced it.
C3_PickedWithinRequested ==
    \A n \in Names :
        Exists(db[n]) =>
            \A i \in DOMAIN db[n].items :
                /\ 0 <= db[n].items[i].picked_qty
                /\ db[n].items[i].picked_qty <= db[n].items[i].requested_qty

\* a session has scanned an item up to its requested quantity
C3_ScannedToFull ==
    \E u \in Users :
        /\ sess[u].open
        /\ sess[u].last_scan_upc # NULL
        /\ \E i \in DOMAIN sess[u].items :
              /\ sess[u].items[i].upc = sess[u].last_scan_upc
              /\ sess[u].items[i].picked_qty = sess[u].items[i].requested_qty
              /\ Exists(db[sess[u].name])
              /\ db[sess[u].name].items[i].picked_qty =
                     db[sess[u].name].items[i].requested_qty

\* C4: once a request is completed or cancelled no step changes its status;
\* a completed request can only still be removed, a cancelled one stays.
C4_TerminalIsFinal ==
    [][\A n \in Names :
          (Exists(db[n]) /\ db[n].status \in Terminal) =>
              \/ /\ Exists(db'[n])
                 /\ db'[n].status = db[n].status
              \/ /\ db[n].status = "completed"
                 /\ ~Exists(db'[n])]_vars

\* a request has been in a terminal status for some time
C4_TerminalForAWhile ==
    \E n \in Names :
        /\ Exists(db[n])
        /\ db[n].status \in Terminal
        /\ db[n].last_activity_at # None
        /\ db[n].last_activity_at < now

ShortagesExplained(req) ==
    /\ has_shortages(req)
    /\ \A i \in DOMAIN req.items :
          item_has_shortage(req.items[i]) =>
              /\ req.items[i].shortage_reason # NULL
              /\ req.items[i].shortage_reason = "other" =>
                     req.items[i].shortage_notes # NULL

\* C6 (as stated): a partially_completed request has at least one shortage
\* item, each of them has a shortage_reason, and notes when the reason is other.
C6_PartialIsExplained ==
    \A n \in Names :
        (Exists(db[n]) /\ db[n].status = "partially_completed")
        => ShortagesExplained(db[n])

\* C6 (amended): a submit without skip_shortage_validation that takes a request
\* to partially_completed leaves at least one shortage item, each of them with
\* a shortage_reason, and with notes when the reason is other.
C6_ValidatedSubmitIsExplained ==
    [][\A n \in Names, u \in Users :
          (Submit(n, u, FALSE) /\ db'[n].status = "partially_completed")
          => ShortagesExplained(db'[n])]_vars

\* a request is partially_completed with a shortage explained as "other"
C6_PartialWithOtherReason ==
    \E n \in Names :
        /\ Exists(db[n])
        /\ db[n].status = "partially_completed"
        /\ db[n].completed_at = now
        /\ ShortagesExplained(db[n])
        /\ \E i \in DOMAIN db[n].items :
              /\ item_has_shortage(db[n].items[i])
              /\ db[n].items[i].shortage_reason = "other"

\* the step changes the quantity or the shortage annotation of an item of n
ItemsChanged(n) ==
    /\ Exists(db[n]) /\ Exists(db'[n])
    /\ db'[n].gen = db[n].gen
    /\ db'[n].items # db[n].items

\* the step is an item operation of principal u on request n
ActsOnItems(u, n) ==
    \/ \E upc \in UPCs, update \in ItemQuantityUpdates :
          UpdateItem(n, u, upc, update)
    \/ \E upc \in UPCs, update \in ShortageUpdates : SetShortage(n, u, upc, update)
    \/ /\ sess[u].open
       /\ sess[u].name = n
       /\ \/ \E upc \in UPCs : Scan(u, upc)
          \/ \E upc \in UPCs, q \in Quantities : ManualUpdate(u, upc, q)

\* C8: an item's picked_qty or shortage annotation changes only in a step
\* taken while the request is in_progress, by its claimant or an admin; REST
\* item operations and the scans and manual updates of a session alike.
C8_ItemsChangeOnlyUnderClaim ==
    [][\A n \in Names :
          ItemsChanged(n) =>
              /\ db[n].status = "in_progress"
              /\ \E u \in Users :
                    /\ ActsOnItems(u, n)
                    /\ is_locked_by(db[n], u) \/ is_admin(u)]_vars

\* what a reaper pass does to request n: it releases the claim
ReaperReleases(n) ==
    LET after == release_stale_locks(db, T_idle, now)[n]
    IN  /\ Exists(db[n])
        /\ db[n].status # "pending"
        /\ after.status = "pending"
        /\ after.locked_by = NULL

\* C9 (as stated): a reaper pass releases a request exactly when it is
\* in_progress and now - last_activity_at >= T_idle; exactly T_idle counts.
C9_ReleasedIffIdleAtLeast ==
    \A n \in Names :
        ReaperReleases(n) <=>
            /\ Exists(db[n])
            /\ db[n].status = "in_progress"
            /\ now - db[n].last_activity_at >= T_idle

\* C9 (amended): a reaper pass releases a request exactly when it is
\* in_progress and now - last_activity_at > T_idle; a request idle for exactly
\* T_idle, a paused one and a partially_completed one are left alone.
C9_ReleasedIffIdleLonger ==
    \A n \in Names :
        ReaperReleases(n) <=>
            /\ Exists(db[n])
            /\ db[n].status = "in_progress"
            /\ now - db[n].last_activity_at > T_idle

\* a claim with picked items has been released by the reaper
C9_Reaped ==
    \E n \in Names :
        /\ Exists(db[n])
        /\ db[n].status = "pending"
        /\ db[n].last_activity_at = None
        /\ \E i \in DOMAIN db[n].items : db[n].items[i].picked_qty > 0
        /\ now > T_idle

\* C10: a reaper release makes the request pending without claimant and leaves
\* started_at, every picked_qty and every shortage annotation as they were.
C10_ReapPreservesProgress ==
    [][ReaperPass =>
          \A n \in Names :
              is_stale(db[n], T_idle, now) =>
                  /\ db'[n].status = "pending"
                  /\ db'[n].locked_by = NULL
                  /\ db'[n].started_at = db[n].started_at
                  /\ db'[n].items = db[n].items]_vars


\* ============================================ background cleanup (SpecReaper)
\* The cleanup task sleeps cleanup_interval_minutes, runs one pass and sleeps
\* again; the clock cannot go past the end of a sleep without the task waking.

MaxClock == 7
MaxErrors == 1

cleanup_interval_minutes == 60

T_interval == cleanup_interval_minutes \div MinutesPerTick

\* CleanupTaskManager.start at time t
start_task(t) == [running |-> TRUE, due |-> t + T_interval, errors |-> 0]

\* the loop after a pass that ran through: it sleeps again
after_pass(tk, t) == [tk EXCEPT !.due = t + T_interval, !.errors = 0]

\* a loop that ends when a pass raises
stops_after_error(tk, t) == [tk EXCEPT !.running = FALSE, !.errors = @ + 1]

\* the loop after a pass that raised: the error is logged, it sleeps again
after_error(tk, t) == [tk EXCEPT !.due = t + T_interval, !.errors = @ + 1]

\* the application after its startup: empty tables, cleanup task started
InitReaper ==
    /\ db = [n \in SentNames |-> NoReq]
    /\ ngen = [n \in SentNames |-> 0]
    /\ now = 0
    /\ sess = [u \in Users |-> ClosedSession]
    /\ txn = [w \in Workers |-> Idle]
    /\ task = start_task(0)
    /\ is_active = [u \in Users |-> TRUE]
    /\ name_check = NoCheck
    /\ seen = [u \in Users |-> <<>>]

\* a REST call of RaceCalls, from load to commit
Serve(n, c) ==
    /\ get_current_user(c.user) = "OK"
    /\ c.op = "create" => ngen[n] < MaxGen
    /\ LET r == Exec(c, db[n], now)
       IN  /\ r.code = "OK"
           /\ db' = [db EXCEPT ![n] = r.req]
    /\ ngen' = IF c.op = "create" THEN [ngen EXCEPT ![n] = @ + 1] ELSE ngen
    /\ UNCHANGED <<now, sess, txn, task, is_active, name_check, seen>>

\* time passes while the task sleeps
Sleep ==
    /\ now < MaxClock
    /\ task.running => now < task.due
    /\ now' = now + 1
    /\ UNCHANGED <<db, ngen, sess, txn, task, is_active, name_check, seen>>

\* the task wakes and its pass runs through
CleanupTick ==
    /\ task.running
    /\ now = task.due
    /\ db' = cleanup_older_than(release_stale_locks(db, T_idle, now), T_retain, now)
    /\ task' = after_pass(task, now)
    /\ UNCHANGED <<ngen, now, sess, txn, is_active, name_check, seen>>

\* the task wakes and its pass raises, before the release of the stale claims
\* was committed or after it
CleanupTickError(released) ==
    /\ task.running
    /\ now = task.due
    /\ task.errors < MaxErrors
    /\ db' = IF released THEN release_stale_locks(db, T_idle, now) ELSE db
    /\ task' = after_error(task, now)
    /\ UNCHANGED <<ngen, now, sess, txn, is_active, name_check, seen>>

NextReaper ==
    \/ \E n \in Names, c \in RaceCalls : Serve(n, c)
    \/ Sleep
    \/ CleanupTick
    \/ \E released \in BOOLEAN : CleanupTickError(released)

SpecReaper == InitReaper /\ [][NextReaper]_vars

\* C11: with the cleanup task running, a request that stays in_progress is
\* never idle for longer than cleanup_interval + T_idle, plus one more
\* cleanup_interval for every pass that failed in a row: a failed pass delays
\* the release to the next pass and does not end the loop.
C11_ReleaseLatencyBounded ==
    \A n \in Names :
        (Exists(db[n]) /\ db[n].status = "in_progress") =>
            now - db[n].last_activity_at
                <= T_idle + T_interval * (1 + task.errors)

\* a pass later than the second one has released a stale claim
C11_ReleasedByLaterPass ==
    \E n \in Names :
        /\ Exists(db[n])
        /\ db[n].status = "pending"
        /\ db[n].last_activity_at = None
        /\ \E i \in DOMAIN db[n].items : db[n].items[i].picked_qty > 0
        /\ task.running
        /\ task.errors = 0
        /\ task.due = now + T_interval
        /\ now > 2 * T_interval


\* the rows after one reaper pass
AfterPass == cleanup_older_than(release_stale_locks(db, T_idle, now), T_retain, now)

\* C12: a reaper pass deletes a request, with its items, exactly when its
\* status is completed and completed_at < now - T_retain; requests in any
\* other status and younger completed requests stay.
C12_PurgedIffOldCompleted ==
    \A n \in Names :
        Exists(db[n]) =>
            (~Exists(AfterPass[n]) <=>
                /\ db[n].status = "completed"
                /\ db[n].completed_at < now - T_retain)

\* a completed request is older than T_retain and the pass removes it
C12_OldCompleted ==
    \E n \in Names :
        /\ Exists(db[n])
        /\ db[n].completed_at # None
        /\ db[n].completed_at < now - T_retain
        /\ db[n].status = "completed"
        /\ ~Exists(AfterPass[n])


\* C13: a successful submit makes the request completed exactly when no item
\* has picked_qty < requested_qty and partially_completed otherwise, sets
\* completed_at, leaves no claimant on a completed request and the submitting
\* claimant on a partially_completed one.
C13_SubmitOutcome ==
    [][\A n \in Names, u \in Users, skip \in BOOLEAN :
          Submit(n, u, skip) =>
              /\ db'[n].status = IF has_shortages(db[n])
                                 THEN "partially_completed" ELSE "completed"
              /\ db'[n].completed_at = now
              /\ db'[n].status = "completed" => db'[n].locked_by = NULL
              /\ db'[n].status = "partially_completed" =>
                     db'[n].locked_by = db[n].locked_by]_vars


\* principal u may work on the items of req: it can pick, and it is the
\* claimant of the in_progress request or an admin
HoldsClaim(req, u) ==
    /\ Exists(req)
    /\ can_pick(u)
    /\ req.status = "in_progress"
    /\ is_locked_by(req, u) \/ is_admin(u)

\* C14: submit without skip_shortage_validation on a request with a shortage
\* item that has no shortage_reason fails with VALIDATION_ERROR naming the
\* first such item, and leaves the request and its items as they were.
C14_SubmitRejectsUnexplained ==
    \A n \in Names, u \in Users :
        (HoldsClaim(db[n], u) /\ missing_reason(db[n])) =>
            LET r == api_submit(db[n], u, FALSE, now)
                unexplained == {i \in DOMAIN db[n].items :
                    /\ db[n].items[i].picked_qty < db[n].items[i].requested_qty
                    /\ db[n].items[i].shortage_reason = NULL}
            IN  /\ r.code = "VALIDATION_ERROR"
                /\ r.req = db[n]
                /\ \E i \in unexplained :
                      /\ \A j \in unexplained : i <= j
                      /\ validation_error_item(db[n]) = db[n].items[i].upc

\* a claimed request has two shortage items and neither has a reason
C14_TwoUnexplained ==
    \E n \in Names :
        /\ Exists(db[n])
        /\ db[n].status = "in_progress"
        /\ Len(db[n].items) = 2
        /\ \A i \in DOMAIN db[n].items :
              /\ item_has_shortage(db[n].items[i])
              /\ db[n].items[i].shortage_reason = NULL
        /\ db[n].items[1].picked_qty > 0


\* C15: when the completion log cannot be written, submit still returns its
\* success result (the committed transition stands and the log error is only
\* reported alongside).
C15_SubmitSucceedsWithoutLog ==
    \A n \in Names, u \in Users, skip \in BOOLEAN :
        api_submit(db[n], u, skip, now).code = "OK" =>
            submit_response(db[n], u, ~skip, now, FALSE) = "OK"


\* C16: update_item with an absolute quantity above requested_qty, or an
\* increment that would pass it, fails with QUANTITY_EXCEEDED carrying
\* remaining = requested_qty - picked_qty as before the call and changes
\* nothing; a quantity up to requested_qty, reached exactly by an increment
\* included, is written as given.
C16_QuantityExceeded ==
    \A n \in Names, u \in Users, upc \in UPCs, update \in ItemQuantityUpdates :
        (HoldsClaim(db[n], u) /\ find_item(db[n], upc) # 0) =>
            LET it == db[n].items[find_item(db[n], upc)]
                r == api_update_item(db[n], upc, update, u, now)
                asked == IF update.increment = None THEN update.picked_qty
                         ELSE it.picked_qty + update.increment
            IN  IF asked > it.requested_qty
                THEN /\ r.code = "QUANTITY_EXCEEDED"
                     /\ r.req = db[n]
                     /\ exceeded_remaining(db[n], upc) =
                            it.requested_qty - it.picked_qty
                ELSE /\ r.code = "OK"
                     /\ r.req.items[find_item(db[n], upc)].picked_qty = asked

\* an item of a claimed request is picked in full, so that one more increment
\* is refused with remaining = 0
C16_PickedInFull ==
    \E n \in Names, u \in Users :
        /\ HoldsClaim(db[n], u)
        /\ \E i \in DOMAIN db[n].items :
              /\ db[n].items[i].picked_qty = db[n].items[i].requested_qty
              /\ api_update_item(db[n], db[n].items[i].upc,
                     [picked_qty |-> None, increment |-> 1], u, now).code
                 = "QUANTITY_EXCEEDED"
              /\ exceeded_remaining(db[n], db[n].items[i].upc) = 0


\* C17: approve succeeds only on a partially_completed request and only for
\* its creator or an admin; it makes the request completed, clears the
\* claimant and appends the audit note when notes are supplied.  For such a
\* principal approve fails with INVALID_STATUS from every other status, pending
\* after a release included, and changes nothing.
C17_ApproveOutcome ==
    [][\A n \in Names, u \in Users, notes \in ApprovalNotes :
          /\ Approve(n, u, notes) =>
                /\ db[n].status = "partially_completed"
                /\ db[n].created_by = u \/ is_admin(u)
                /\ db'[n].status = "completed"
                /\ db'[n].locked_by = NULL
                /\ db'[n].notes =
                       IF notes \in {NULL, ""} THEN db[n].notes
                       ELSE db[n].notes \o <<approval_note(u, notes)>>
          /\ (/\ Exists(db[n])
              /\ db[n].created_by = u \/ is_admin(u)
              /\ db[n].status # "partially_completed") =>
                /\ approve_request(db[n], u, notes, now).code = "INVALID_STATUS"
                /\ approve_request(db[n], u, notes, now).req = db[n]]_vars


\* C18: completed_at is written by submit only; approve, release, resume,
\* cancel and the reaper leave the value of the last submit in place.
C18_CompletedAtOnlyBySubmit ==
    [][\A n \in Names :
          (/\ Exists(db[n]) /\ Exists(db'[n])
           /\ db'[n].gen = db[n].gen
           /\ db'[n].completed_at # db[n].completed_at)
          => \E u \in Users, skip \in BOOLEAN : Submit(n, u, skip)]_vars

\* C19: start sets started_at only when it is unset; a start after a release
\* keeps the time of the first start.
C19_StartKeepsFirstStartedAt ==
    [][\A n \in Names, u \in Users :
          (Start(n, u) /\ db[n].started_at # None)
          => db'[n].started_at = db[n].started_at]_vars


\* C20: release by the claimant or an admin from in_progress, paused or
\* partially_completed succeeds, makes the request pending without claimant
\* and leaves every picked_qty, every shortage annotation and started_at as
\* they were.
C20_ReleaseKeepsProgress ==
    [][\A n \in Names, u \in Users :
          /\ (/\ Exists(db[n])
              /\ db[n].status \in Active
              /\ is_locked_by(db[n], u) \/ is_admin(u))
             => release_lock(db[n], u, now).code = "OK"
          /\ Release(n, u) =>
                /\ db[n].status \in Active
                /\ db'[n].status = "pending"
                /\ db'[n].locked_by = NULL
                /\ db'[n].items = db[n].items
                /\ db'[n].started_at = db[n].started_at]_vars

\* a request with picked items has just been released over REST
C20_ReleasedWithProgress ==
    \E n \in Names :
        /\ Exists(db[n])
        /\ db[n].status = "pending"
        /\ db[n].locked_by = NULL
        /\ db[n].started_at # None
        /\ db[n].started_at < now
        /\ db[n].last_activity_at = now
        /\ \E i \in DOMAIN db[n].items :
              /\ db[n].items[i].picked_qty > 0
              /\ db[n].items[i].shortage_reason # NULL


\* C21: for every principal whose pause of an in_progress request succeeds
\* (the claimant or an admin), pause followed by resume by the same principal
\* succeeds and gives the request back in_progress, with the claimant it had
\* before the pause and with its items unchanged.
C21_PauseResumeKeepsClaimant ==
    \A n \in Names, u \in Users :
        api_pause(db[n], u, now).code = "OK" =>
            LET paused == api_pause(db[n], u, now).req
                resumed == api_resume(paused, u, now)
            IN  /\ paused.status = "paused"
                /\ paused.locked_by = db[n].locked_by
                /\ resumed.code = "OK"
                /\ resumed.req.status = "in_progress"
                /\ resumed.req.locked_by = db[n].locked_by
                /\ resumed.req.items = db[n].items

\* C22: resume succeeds only from paused or partially_completed and makes the
\* request in_progress.  From paused it succeeds for the claimant or an admin,
\* and any other picker gets REQUEST_LOCKED and changes nothing; from
\* partially_completed it succeeds for any picker, who becomes the claimant;
\* from every other status a picker gets INVALID_STATUS.
C22_ResumeOutcome ==
    [][\A n \in Names, u \in Users :
          /\ Resume(n, u) =>
                /\ db[n].status \in {"paused", "partially_completed"}
                /\ db[n].status = "paused" =>
                       is_locked_by(db[n], u) \/ is_admin(u)
                /\ db'[n].status = "in_progress"
                /\ db[n].status = "partially_completed" => db'[n].locked_by = u
          /\ (Exists(db[n]) /\ can_pick(u)) =>
                LET r == api_resume(db[n], u, now)
                IN  CASE db[n].status = "paused" ->
                            IF is_locked_by(db[n], u) \/ is_admin(u)
                            THEN r.code = "OK"
                            ELSE r.code = "REQUEST_LOCKED" /\ r.req = db[n]
                      [] db[n].status = "partially_completed" -> r.code = "OK"
                      [] OTHER -> r.code = "INVALID_STATUS" /\ r.req = db[n]]_vars

\* a request submitted with shortages by one picker has been resumed by
\* another picker, who is now its claimant
C22_ResumedByAnotherPicker ==
    \E n \in Names :
        /\ Exists(db[n])
        /\ db[n].status = "in_progress"
        /\ db[n].completed_at # None
        /\ db[n].started_at = db[n].completed_at
        /\ db[n].last_activity_at = now
        /\ db[n].completed_at < now
        /\ db[n].locked_by = "carol"
        /\ has_shortages(db[n])

C24_DeleteOutcome ==
    [][\A n \in Names, u \in Users :
          /\ Delete(n, u) =>
                /\ db[n].status = "pending"
                /\ db[n].created_by = u \/ is_admin(u)
                /\ ~Exists(db'[n])
          /\ Exists(db[n]) =>
                LET r == delete_request(db[n], u)
                IN  IF ~(db[n].created_by = u \/ is_admin(u))
                    THEN r.code = "FORBIDDEN" /\ r.req = db[n]
                    ELSE IF db[n].status # "pending"
                    THEN r.code = "INVALID_STATUS" /\ r.req = db[n]
                    ELSE r.code = "OK" /\ ~Exists(r.req)]_vars

\* a released request with picked items is pending: its creator's delete
\* removes it, a picker's delete is refused
C24_DeletableWithProgress ==
    \E n \in Names :
        /\ Exists(db[n])
        /\ db[n].status = "pending"
        /\ db[n].created_by = "alice"
        /\ \E i \in DOMAIN db[n].items : db[n].items[i].picked_qty > 0
        /\ ~Exists(delete_request(db[n], "alice").req)
        /\ delete_request(db[n], "bob").code = "FORBIDDEN"

\* the operations principal u can call on req, each with its result and with
\* whether u passes the operation's own gate (role, claimant or creator)
CallsOn(req, u, t) ==
    LET gate_pick == can_pick(u)
        gate_claim == is_admin(u) \/ req.locked_by = u
        gate_owner == is_admin(u) \/ req.created_by = u
    IN  {[op |-> "start", r |-> api_start(req, u, t), allowed |-> gate_pick],
         [op |-> "pause", r |-> api_pause(req, u, t), allowed |-> gate_pick],
         [op |-> "resume", r |-> api_resume(req, u, t), allowed |-> gate_pick],
         [op |-> "release", r |-> release_lock(req, u, t), allowed |-> gate_claim],
         [op |-> "cancel", r |-> cancel_request(req, u, t), allowed |-> gate_owner],
         [op |-> "delete", r |-> delete_request(req, u), allowed |-> gate_owner]}
        \cup {[op |-> "submit", r |-> api_submit(req, u, skip, t),
                allowed |-> gate_pick] : skip \in BOOLEAN}
        \cup {[op |-> "approve", r |-> approve_request(req, u, notes, t),
                allowed |-> gate_owner] : notes \in ApprovalNotes}
        \cup {[op |-> "update_item", r |-> api_update_item(req, upc, update, u, t),
                allowed |-> gate_pick] :
                    upc \in UPCs, update \in ItemQuantityUpdates}
        \cup {[op |-> "set_item_shortage",
                r |-> api_set_shortage(req, upc, update, u, t),
                allowed |-> gate_pick] :
                    upc \in UPCs,
                    update \in {x \in ShortageUpdates : validate_notes_for_other(x)}}

C26_TransitionStampsActivity ==
    [][\A n \in Names :
          (/\ Exists(db[n]) /\ Exists(db'[n])
           /\ db'[n].gen = db[n].gen
           /\ db'[n].status # db[n].status)
          => db'[n].last_activity_at = now]_vars

\* the calls of principal u on req with the row each leaves in the store:
\* the REST operations, create, submit_with_shortages, and submit when the
\* completion log cannot be written
OutcomesOn(req, u, t) ==
    {c.r : c \in CallsOn(req, u, t)}
    \cup {api_create(req, payload, u, 1) : payload \in Payloads}
    \cup {submit_with_shortages(req, u, data, t) : data \in ShortageData}
    \cup {Res(submit_response(req, u, ~skip, t, FALSE),
               api_submit(req, u, skip, t).req) : skip \in BOOLEAN}

\* C27: a coordinator operation that returns an error leaves the stored
\* request and its items exactly as they were before the call;
\* submit_with_shortages, which applies the given reasons and then submits,
\* included.
C27_ErrorLeavesRowUnchanged ==
    \A n \in Names, u \in Users :
        Exists(db[n]) =>
            \A r \in OutcomesOn(db[n], u, now) :
                r.code # "OK" => r.req = db[n]

PickerCalls(req, u, t) ==
    {api_start(req, u, t), api_pause(req, u, t), api_resume(req, u, t)}
    \cup {api_submit(req, u, skip, t) : skip \in BOOLEAN}
    \cup {api_update_item(req, upc, update, u, t) :
              upc \in UPCs, update \in ItemQuantityUpdates}
    \cup {api_set_shortage(req, upc, update, u, t) :
              upc \in UPCs,
              update \in {x \in ShortageUpdates : validate_notes_for_other(x)}}

\* the step is a call of principal u on request n behind the picker gate
ActsAsPicker(u, n) ==
    \/ Start(n, u) \/ Pause(n, u) \/ Resume(n, u)
    \/ \E skip \in BOOLEAN : Submit(n, u, skip)
    \/ \E upc \in UPCs, update \in ItemQuantityUpdates :
          UpdateItem(n, u, upc, update)
    \/ \E upc \in UPCs, update \in ShortageUpdates : SetShortage(n, u, upc, update)

RoleGateErrors == {"ADMIN_REQUIRED", "PICKER_REQUIRED", "REQUESTER_REQUIRED"}

\* C29: create by a principal with the picker role is rejected with 403 and
\* stores no request; start, pause, resume, update_item, set_item_shortage and
\* submit by a principal with the requester role are rejected with 403 and
\* change nothing; an admin is stopped by no role gate.
C29_RoleGates ==
    /\ [](\A n \in Names, u \in Users :
            /\ role(u) = "picker" =>
                  \A payload \in Payloads :
                      LET r == api_create(db[n], payload, u, ngen[n] + 1)
                      IN  status_code(r.code) = 403 /\ r.req = db[n]
            /\ role(u) = "requester" =>
                  \A r \in PickerCalls(db[n], u, now) :
                      status_code(r.code) = 403 /\ r.req = db[n]
            /\ role(u) = "admin" =>
                  \A r \in PickerCalls(db[n], u, now)
                            \cup {api_create(db[n], payload, u, ngen[n] + 1) :
                                      payload \in Payloads} :
                      r.code \notin RoleGateErrors)
    /\ [][\A n \in Names, u \in Users :
            /\ role(u) = "picker" =>
                  ~(\E payload \in Payloads : Create(n, u, payload))
            /\ role(u) = "requester" => ~ActsAsPicker(u, n)]_vars

\* a requester's own request is being picked: the requester's pause and the
\* picker's create are both stopped at the role gate
C29_GatesApply ==
    \E n \in Names :
        /\ Exists(db[n])
        /\ db[n].status = "in_progress"
        /\ db[n].created_by = "alice"
        /\ db[n].locked_by = "bob"
        /\ status_code(api_pause(db[n], "alice", now).code) = 403
        /\ api_pause(db[n], "bob", now).code = "OK"
        /\ \A payload \in Payloads :
              status_code(api_create(db[n], payload, "bob", 1).code) = 403


\* ============================================ user accounts (SpecAccounts)
\* DELETE /users/{user_id}, or PUT /users/{user_id} with is_active false:
\* admin a deactivates the account of u
deactivate_user(a, u) ==
    /\ get_current_user(a) = "OK"
    /\ is_admin(a)
    /\ is_active[u]
    /\ is_active' = [is_active EXCEPT ![u] = FALSE]
    /\ UNCHANGED <<db, ngen, now, sess, txn, task, name_check, seen>>

\* POST /users/{user_id}/activate, or PUT /users/{user_id} with is_active true
activate_user(a, u) ==
    /\ get_current_user(a) = "OK"
    /\ is_admin(a)
    /\ ~is_active[u]
    /\ is_active' = [is_active EXCEPT ![u] = TRUE]
    /\ UNCHANGED <<db, ngen, now, sess, txn, task, name_check, seen>>

\* REST calls, scanning sessions and the administration of accounts, within
\* one quantum of the clock
NextAccounts ==
    \/ \E n \in Names, c \in RaceCalls : Serve(n, c)
    \/ \E u \in Users, n \in Names : Connect(u, n)
    \/ \E u \in Users, upc \in UPCs : Scan(u, upc)
    \/ \E u \in Users, upc \in UPCs, q \in Quantities \cup {None} :
          ManualUpdate(u, upc, q)
    \/ \E u \in Users : Disconnect(u)
    \/ \E u \in Users : CooldownExpires(u)
    \/ \E a \in Users, u \in Users : deactivate_user(a, u)
    \/ \E a \in Users, u \in Users : activate_user(a, u)

SpecAccounts == Init /\ [][NextAccounts]_vars

\* the step is a REST call of principal u, or a scan or a manual update of
\* the scanning session of u
ActsFor(u) ==
    \/ \E n \in Names, c \in RaceCalls : c.user = u /\ Serve(n, c)
    \/ \E upc \in UPCs : Scan(u, upc)
    \/ \E upc \in UPCs, q \in Quantities \cup {None} : ManualUpdate(u, upc, q)

\* C30: no step changes a request on behalf of a principal whose is_active
\* flag is false when the step is taken, be it a REST call or a quantity
\* change sent over a scanning session opened while the principal was active.
C30_NoMutationForInactive ==
    [][\A u \in Users : ActsFor(u) /\ db' # db => is_active[u]]_vars

\* C31: once a request is created, no step changes the name it is stored
\* under, its creator, the UPCs of its items or any requested_qty; REST calls
\* and the scans and manual updates of a session alike.
C31_CreatedFieldsFrozen ==
    [][/\ \A n \in SentNames :
             Exists(db[n]) /\ Exists(db'[n]) /\ db'[n].gen = db[n].gen =>
                /\ db'[n].created_by = db[n].created_by
                /\ DOMAIN db'[n].items = DOMAIN db[n].items
                /\ \A i \in DOMAIN db[n].items :
                      /\ db'[n].items[i].upc = db[n].items[i].upc
                      /\ db'[n].items[i].requested_qty =
                            db[n].items[i].requested_qty
       /\ \A n \in SentNames, m \in SentNames :
             n # m => ~(/\ Exists(db[n]) /\ ~Exists(db'[n])
                        /\ ~Exists(db[m]) /\ Exists(db'[m]))]_vars

\* a request has been picked through a session and annotated over REST
C31_PickedAndAnnotated ==
    \E n \in Names, u \in Users :
        /\ Exists(db[n])
        /\ sess[u].open /\ sess[u].name = n /\ sess[u].last_scan_upc # NULL
        /\ \E i \in DOMAIN db[n].items :
              /\ db[n].items[i].picked_qty > 0
              /\ db[n].items[i].shortage_reason # NULL


\* ============================================== name validation (SpecNames)
\* A name is a sequence of characters.
MIN_LENGTH == 3
MAX_LENGTH == 50
MaxPad == 1

AsciiLower == {"a", "b"}

AsciiUpper == {"A", "B"}

Digits == {"7"}

Whitespace == {" ", "\t"}

\* str.lower and str.upper, on one character
lower_char(c) == CASE c = "A" -> "a" [] c = "B" -> "b" [] OTHER -> c

upper_char(c) == CASE c = "a" -> "A" [] c = "b" -> "B" [] OTHER -> c

\* a normalization that keeps the letter case of the name
str_as_sent(name) == name

str_lower(name) == [i \in 1..Len(name) |-> lower_char(name[i])]

str_upper(name) == [i \in 1..Len(name) |-> upper_char(name[i])]

RECURSIVE lstrip(_)
lstrip(name) ==
    IF name # <<>> /\ Head(name) \in Whitespace THEN lstrip(Tail(name))
    ELSE name

RECURSIVE rstrip(_)
rstrip(name) ==
    IF name # <<>> /\ name[Len(name)] \in Whitespace
    THEN rstrip(SubSeq(name, 1, Len(name) - 1))
    ELSE name

\* str.strip
strip(name) == rstrip(lstrip(name))

isalpha(c) == c \in AsciiLower \cup AsciiUpper

\* the pattern without its end anchor: re.match looks at a prefix only
PATTERN_unanchored(name) ==
    /\ Len(name) >= 3
    /\ name[1] \in AsciiLower \cup AsciiUpper
    /\ \A i \in 2..3 :
          name[i] \in AsciiLower \cup AsciiUpper \cup Digits \cup {"_", "-"}

\* PATTERN.match(name), for ^[a-zA-Z][a-zA-Z0-9_-]{2,49}$
PATTERN(name) ==
    /\ Len(name) - 1 \in 2..49
    /\ name[1] \in AsciiLower \cup AsciiUpper
    /\ \A i \in 2..Len(name) :
          name[i] \in AsciiLower \cup AsciiUpper \cup Digits \cup {"_", "-"}

Reply(ok, normalized, error) ==
    [ok |-> ok, normalized |-> normalized, error |-> error]

Invalid(error) == Reply(FALSE, <<>>, error)

\* RequestNameValidator.validate
validate(raw) ==
    IF raw = <<>> THEN Invalid("Name is required")
    ELSE LET name == strip(raw)
         IN  IF \E i \in 1..Len(name) : name[i] = " "
             THEN Invalid("Name cannot contain spaces")
             ELSE IF Len(name) < MIN_LENGTH
             THEN Invalid("Name must be at least 3 characters")
             ELSE IF Len(name) > MAX_LENGTH
             THEN Invalid("Name must be at most 50 characters")
             ELSE IF ~isalpha(name[1])
             THEN Invalid("Name must start with a letter")
             ELSE IF ~PATTERN(name)
             THEN Invalid("Name can only contain letters, numbers, underscores, and hyphens")
             ELSE Reply(TRUE, str_lower(name), NULL)

\* PickRequestCreate: the length limits of the field apply to the name as
\* sent, then validate_name runs; v[0] of an empty string raises IndexError
PickRequestCreate_name(v) ==
    IF Len(v) < 3 \/ Len(v) > 50 THEN Invalid("VALIDATION_ERROR")
    ELSE LET name == strip(str_lower(v))
         IN  IF \E i \in 1..Len(name) : name[i] = " "
             THEN Invalid("VALIDATION_ERROR")
             ELSE IF name = <<>> THEN Invalid("INTERNAL_ERROR")
             ELSE IF ~isalpha(name[1]) THEN Invalid("VALIDATION_ERROR")
             ELSE Reply(TRUE, name, NULL)

\* POST /pick-requests: the schema, then create_request's validation of the
\* name the schema returned
create_name(raw) ==
    IF ~PickRequestCreate_name(raw).ok THEN PickRequestCreate_name(raw)
    ELSE IF ~validate(PickRequestCreate_name(raw).normalized).ok
    THEN Invalid("INVALID_REQUEST_NAME")
    ELSE validate(PickRequestCreate_name(raw).normalized)

\* k copies of character c
Fill(c, k) == [i \in 1..k |-> c]

Pads == UNION {[1..k -> Whitespace] : k \in 0..MaxPad}

\* the lengths that put a name at and around both limits
FillLengths ==
    {MIN_LENGTH - 3, MIN_LENGTH - 2, MIN_LENGTH - 1,
     MAX_LENGTH - 3, MAX_LENGTH - 2, MAX_LENGTH - 1}

\* raw names: padding, a first character, possibly a second one of any kind,
\* a run of one character, possibly a last one that no name may hold, padding
RawNames ==
    {l \o <<first>> \o mid \o Fill(c, k) \o last \o r :
        l \in Pads, r \in Pads,
        first \in {"a", "B", "7", "_", "!"},
        mid \in {<<>>, <<"b">>, <<"-">>, <<" ">>, <<"\t">>, <<"!">>},
        c \in {"b", "A", "7"},
        k \in FillLengths,
        last \in {<<>>, <<"!">>}}

\* a client has sent a raw name for validation
InitNames ==
    /\ db = [n \in SentNames |-> NoReq]
    /\ ngen = [n \in SentNames |-> 0]
    /\ now = 0
    /\ sess = [u \in Users |-> ClosedSession]
    /\ txn = [w \in Workers |-> Idle]
    /\ task = NoTask
    /\ is_active = [u \in Users |-> TRUE]
    /\ name_check \in {[pc |-> "sent", raw |-> raw, reply |-> NoReply] :
                          raw \in RawNames}
    /\ seen = [u \in Users |-> <<>>]

\* GET /pick-requests/validate-name/{name}, or the requester session's
\* validate_name message, with no request stored
validate_request_name ==
    /\ name_check.pc = "sent"
    /\ name_check' = [name_check EXCEPT !.pc = "replied",
                                        !.reply = validate(name_check.raw)]
    /\ UNCHANGED <<db, ngen, now, sess, txn, task, is_active, seen>>

\* the client sends the normalized name it was given
Resubmit ==
    /\ name_check.pc = "replied"
    /\ name_check.reply.ok
    /\ name_check' = [pc |-> "sent", raw |-> name_check.reply.normalized,
                      reply |-> NoReply]
    /\ UNCHANGED <<db, ngen, now, sess, txn, task, is_active, seen>>

NextNames == validate_request_name \/ Resubmit

SpecNames == InitNames /\ [][NextNames]_vars

\* the raw names that differ from raw only in letter case or in surrounding
\* whitespace
Variants(raw) ==
    {l \o v \o r : l \in Pads, r \in Pads,
                   v \in {raw, str_upper(raw), str_lower(raw)}}

\* C32: a normalized name validates again, to itself; and raw names that
\* differ only in letter case or surrounding whitespace are accepted or
\* rejected together and, when accepted, normalize to the same name.
C32_CanonicalIdempotentCaseBlind ==
    name_check.pc = "replied" =>
        LET raw == name_check.raw
            reply == name_check.reply
        IN  /\ reply.ok =>
                  validate(reply.normalized) = Reply(TRUE, reply.normalized, NULL)
            /\ \A other \in Variants(raw) :
                  /\ validate(other).ok = reply.ok
                  /\ validate(other).normalized = reply.normalized

\* a padded name with capital letters was accepted and folded
C32_FoldedName ==
    /\ name_check.pc = "replied"
    /\ name_check.reply.ok
    /\ strip(name_check.raw) # name_check.raw
    /\ str_lower(strip(name_check.raw)) # strip(name_check.raw)
    /\ name_check.reply.normalized # name_check.raw

NameChars == AsciiLower \cup AsciiUpper \cup Digits \cup {"_", "-"}

\* C33: the validator accepts a name exactly when, trimmed, it has 3 to 50
\* characters, starts with a letter and holds only letters, digits, underscore
\* and hyphen; an accepted name is returned trimmed and in lower case; and
\* create accepts a trimmed name exactly when the validator does.
C33_AcceptsExactlyWellFormed ==
    name_check.pc = "replied" =>
        LET raw == name_check.raw
            name == strip(raw)
            reply == name_check.reply
        IN  /\ reply.ok <=>
                  /\ Len(name) >= 3
                  /\ Len(name) <= 50
                  /\ name[1] \in AsciiLower \cup AsciiUpper
                  /\ \A i \in 1..Len(name) : name[i] \in NameChars
            /\ reply.ok => reply.normalized = str_lower(name)
            /\ raw = name =>
                  /\ create_name(raw).ok = reply.ok
                  /\ create_name(raw).normalized = reply.normalized

\* a padded name of 50 characters in mixed case was accepted
C33_LongestNameAccepted ==
    /\ name_check.pc = "replied"
    /\ name_check.reply.ok
    /\ Len(strip(name_check.raw)) = MAX_LENGTH
    /\ Len(name_check.raw) > MAX_LENGTH
    /\ name_check.reply.normalized # strip(name_check.raw)

\* the scan of upc in the session of u is one that writes: the item is in
\* the session's mapping, counts by scan and the rows are still there
ScanIncrements(u, upc) ==
    /\ sess[u].open
    /\ upc_to_item(sess[u], upc) # 0
    /\ auto_increments(sess[u].items[upc_to_item(sess[u], upc)])
    /\ RowsPresent(sess[u], db[sess[u].name])
    /\ Scan(u, upc)

\* C34: a successful update_item with increment k leaves the stored
\* picked_qty at its value before the step plus k, and a scan that
\* auto-increments leaves it at its value before the step plus 1, whatever
\* changed the item since the session or the call read it.
C34_NoIncrementLost ==
    [][/\ \A n \in Names, u \in Users, upc \in UPCs, k \in Increments :
             UpdateItem(n, u, upc, [picked_qty |-> None, increment |-> k]) =>
                LET i == find_item(db[n], upc)
                IN  db'[n].items[i].picked_qty = db[n].items[i].picked_qty + k
       /\ \A u \in Users, upc \in UPCs :
             ScanIncrements(u, upc) =>
                LET n == sess[u].name
                    i == upc_to_item(sess[u], upc)
                IN  db'[n].items[i].picked_qty = db[n].items[i].picked_qty + 1
      ]_vars


\* ================================ the reaper beside the workers (SpecReap)
\* release_stale_locks in the process of worker w: the threshold is taken and
\* the query loads the requests that are stale
ReapQuery(w) ==
    /\ txn[w].pc = "idle"
    /\ txn' = [txn EXCEPT ![w] =
                  [pc |-> "reap", at |-> now,
                   snap |-> [n \in DOMAIN db |->
                               IF is_stale(db[n], T_idle, now) THEN db[n]
                               ELSE NoReq]]]
    /\ UNCHANGED <<db, ngen, now, sess, task, is_active, name_check, seen>>

\* the loop over the loaded requests and the commit: the flush writes the
\* changed columns of each of them, keyed by the primary key alone
ReapCommit(w) ==
    /\ txn[w].pc = "reap"
    /\ LET t == txn[w]
           released == release_stale_locks(t.snap, T_idle, t.at)
       IN  db' = [n \in DOMAIN db |->
                    IF is_stale(t.snap[n], T_idle, t.at) /\ Exists(db[n])
                    THEN Flush(db[n], t.snap[n], released[n])
                    ELSE db[n]]
    /\ txn' = [txn EXCEPT ![w] = Idle]
    /\ UNCHANGED <<ngen, now, sess, task, is_active, name_check, seen>>

NextReap ==
    \/ \E n \in Names, c \in RaceCalls : Serve(n, c)
    \/ \E w \in Workers : ReapQuery(w)
    \/ \E w \in Workers : ReapCommit(w)
    \/ \E d \in {1, T_retain} : Tick(d)

SpecReap == Init /\ [][NextReap]_vars

\* C35: the commit of the reaper's release leaves every request unchanged
\* that is not stale when the commit happens: one that is no longer
\* in_progress (submitted, cancelled, paused) or has had fresh activity since
\* the reaper's query.
C35_ReaperSparesChangedRequests ==
    [][\A w \in Workers :
          ReapCommit(w) =>
             \A n \in Names :
                 ~is_stale(db[n], T_idle, now) => db'[n] = db[n]]_vars


\* ========================================== scan cooldown (SpecDebounce)
\* seen[u] lists, oldest first, the observations that reached the session of
\* u less than _scan_cooldown (1 second) ago, and whether each was processed.
MaxSeen == 3

Observation(upc, processed) == [upc |-> upc, processed |-> processed]

\* handle_manual_scan, or one detection of handle_frame: the cooldown check
\* drops the observation or lets it through
Observe(u, upc) ==
    /\ sess[u].open
    /\ Len(seen[u]) < MaxSeen
    /\ IF in_cooldown(sess[u], upc)
       THEN /\ seen' = [seen EXCEPT ![u] = Append(@, Observation(upc, FALSE))]
            /\ UNCHANGED <<db, sess>>
       ELSE /\ ProcessScan(u, upc)
            /\ seen' = [seen EXCEPT ![u] = Append(@, Observation(upc, TRUE))]
    /\ UNCHANGED <<ngen, now, txn, task, is_active, name_check>>

\* time passes: the oldest observation is one second old; the cooldown ends
\* when _last_scan_time, the time of the last processed one, is that old
Forget(u) ==
    /\ sess[u].open
    /\ seen[u] # <<>>
    /\ seen' = [seen EXCEPT ![u] = Tail(@)]
    /\ sess' = [sess EXCEPT ![u].cooling =
                   \E j \in 2..Len(seen[u]) : seen[u][j].processed]
    /\ UNCHANGED <<db, ngen, now, txn, task, is_active, name_check>>

NextDebounce ==
    \/ \E n \in Names, c \in RaceCalls : Serve(n, c)
    \/ \E u \in Users, n \in Names : Connect(u, n)
    \/ \E u \in Users, upc \in UPCs : Observe(u, upc)
    \/ \E u \in Users : Forget(u)

SpecDebounce == Init /\ [][NextDebounce]_vars

\* upc was observed in the session of u less than a second ago
SeenRecently(u, upc) == \E j \in 1..Len(seen[u]) : seen[u][j].upc = upc

\* C36: an observation of a UPC that the session observed less than 1 second
\* earlier is dropped and changes nothing, whatever was observed in between;
\* an observation of a UPC not observed in the last second is processed.
C36_DebouncePerUPC ==
    [][\A u \in Users, upc \in UPCs :
          Observe(u, upc) =>
             /\ SeenRecently(u, upc) => db' = db /\ sess' = sess
             /\ ~SeenRecently(u, upc) => seen'[u][Len(seen'[u])].processed
      ]_vars


\* ================================================ scan modes (SpecScan)
\* create payloads with items on either side of auto_mode_threshold
ScanPayloads ==
    { << [upc |-> "u1", quantity |-> 2] >>,
      << [upc |-> "u1", quantity |-> auto_mode_threshold + 1] >> }

NextScan ==
    \/ \E n \in Names, payload \in ScanPayloads : Create(n, "alice", payload)
    \/ \E n \in Names, c \in RaceCalls : Serve(n, c)
    \/ \E u \in Users, n \in Names : Connect(u, n)
    \/ \E u \in Users, upc \in UPCs : Scan(u, upc)
    \/ \E u \in Users : CooldownExpires(u)

SpecScan == Init /\ [][NextScan]_vars

\* C37: a processed scan of a UPC of the request adds exactly 1 to the
\* stored picked_qty of that item when requested_qty <= auto_mode_threshold
\* and picked_qty < requested_qty, and changes no item when picked_qty =
\* requested_qty or when requested_qty > auto_mode_threshold; a scan of a UPC
\* that is not in the request changes no item.
C37_ScanCountsByOne ==
    [][\A u \in Users, upc \in UPCs :
          Scan(u, upc) /\ Exists(db[sess[u].name]) =>
             LET n == sess[u].name
                 i == find_item(db[n], upc)
                 it == db[n].items[i]
             IN  IF i = 0 THEN db'[n].items = db[n].items
                 ELSE /\ (/\ it.requested_qty <= auto_mode_threshold
                          /\ it.picked_qty < it.requested_qty) =>
                            db'[n].items =
                               [db[n].items EXCEPT ![i].picked_qty = @ + 1]
                      /\ it.picked_qty = it.requested_qty =>
                            db'[n].items = db[n].items
                      /\ it.requested_qty > auto_mode_threshold =>
                            db'[n].items = db[n].items
      ]_vars


\* ======================================== cleanup task manager (SpecTask)
\* In this specification task holds the manager's fields: _running, _task
\* (the index of the asyncio task it refers to, 0 for None), the asyncio
\* tasks created so far with their state, and the last call made.
MaxTasks == 2

\* CleanupTaskManager.__init__
NoManager == [_running |-> FALSE, _task |-> 0, tasks |-> <<>>, last |-> "none"]

InitTask ==
    /\ db = [n \in SentNames |-> NoReq]
    /\ ngen = [n \in SentNames |-> 0]
    /\ now = 0
    /\ sess = [u \in Users |-> ClosedSession]
    /\ txn = [w \in Workers |-> Idle]
    /\ task = NoManager
    /\ is_active = [u \in Users |-> TRUE]
    /\ name_check = NoCheck
    /\ seen = [u \in Users |-> <<>>]

\* self._task is None or self._task.done()
no_live_task(tk) == tk._task = 0 \/ tk.tasks[tk._task] = "done"

\* CleanupTaskManager.start
start(tk) ==
    IF no_live_task(tk)
    THEN [tk EXCEPT !._running = TRUE,
                    !.tasks = Append(@, "sleeping"),
                    !._task = Len(tk.tasks) + 1]
    ELSE tk

\* CleanupTaskManager.stop: Task.cancel() asks for the cancellation, which
\* the task meets when the event loop next runs it
stop(tk) ==
    [tk EXCEPT !._running = FALSE,
               !.tasks = IF no_live_task(tk) THEN @
                         ELSE [@ EXCEPT ![tk._task] = "cancelling"]]

\* CleanupTaskManager.is_running
is_running(tk) == tk._running /\ ~no_live_task(tk)

StartManager ==
    /\ Len(task.tasks) < MaxTasks
    /\ task' = [start(task) EXCEPT !.last = "start"]
    /\ UNCHANGED <<db, ngen, now, sess, txn, is_active, name_check, seen>>

StopManager ==
    /\ task' = [stop(task) EXCEPT !.last = "stop"]
    /\ UNCHANGED <<db, ngen, now, sess, txn, is_active, name_check, seen>>

\* _cleanup_loop of task i: the sleep ends, the pass runs, and the loop goes
\* on while _running
LoopWakes(i) ==
    /\ i \in DOMAIN task.tasks
    /\ task.tasks[i] = "sleeping"
    /\ db' = cleanup_older_than(release_stale_locks(db, T_idle, now),
                                T_retain, now)
    /\ task' = [task EXCEPT !.tasks[i] =
                   IF task._running THEN "sleeping" ELSE "done"]
    /\ UNCHANGED <<ngen, now, sess, txn, is_active, name_check, seen>>

\* _cleanup_loop of task i: CancelledError is raised in the sleep; break
LoopCancelled(i) ==
    /\ i \in DOMAIN task.tasks
    /\ task.tasks[i] = "cancelling"
    /\ task' = [task EXCEPT !.tasks[i] = "done"]
    /\ UNCHANGED <<db, ngen, now, sess, txn, is_active, name_check, seen>>

NextTask ==
    \/ StartManager
    \/ StopManager
    \/ \E i \in 1..MaxTasks : LoopWakes(i)
    \/ \E i \in 1..MaxTasks : LoopCancelled(i)
    \/ \E n \in Names, c \in RaceCalls : Serve(n, c)
    \/ \E d \in {1, T_retain} : Tick(d)

SpecTask == InitTask /\ [][NextTask]_vars

\* C38: at most one cleanup loop task is live, and whenever the last call
\* on the manager was start() the loop is running: is_running is true and the
\* manager's task is asleep until its next pass, not about to be cancelled.
C38_StartLeavesOneLoopRunning ==
    /\ Cardinality({i \in DOMAIN task.tasks : task.tasks[i] # "done"}) <= 1
    /\ task.last = "start" =>
          /\ is_running(task)
          /\ task.tasks[task._task] = "sleeping"

\* C39: a request that is in_progress, paused, partially_completed or
\* completed has started_at set, and one that is partially_completed or
\* completed has completed_at set.
C39_TimestampsFollowStatus ==
    \A n \in Names :
        Exists(db[n]) =>
            /\ db[n].status \in {"in_progress", "paused", "partially_completed",
                                 "completed"} => db[n].started_at # None
            /\ db[n].status \in {"partially_completed", "completed"} =>
                  db[n].completed_at # None

\* a request was started after the clock had advanced and submitted with a
\* shortage
C39_RestartedAndSubmitted ==
    \E n \in Names :
        /\ Exists(db[n])
        /\ db[n].status = "partially_completed"
        /\ db[n].started_at > 0
        /\ db[n].completed_at >= db[n].started_at

====
